---- MODULE Spec2Model ----
(***************************************************************************)
(* Historical assembly version backfill                                    *)
(* (src/flows/parsers/backfill_historical_versions.py).                    *)
(*                                                                         *)
(* Specifications over one set of variables:                               *)
(*   SpecDisc  Version Discovery (find_all_assembly_versions) against the  *)
(*             two file caches, a clock and a remote archive whose         *)
(*             answers are drawn from small sets;                          *)
(*   Spec      the Backfill Driver (backfill_historical_versions) as a     *)
(*             process with a program counter, a checkpoint file, an       *)
(*             append-only output, crashes and re-runs;                    *)
(*   SpecScan  the Accession Codec and the Backfill Scan (parse_accession, *)
(*             identify_assemblies_needing_backfill) on corpora of a few   *)
(*             lines, well-formed or not;                                  *)
(*   SpecCache Version Discovery against caches that hold files which are  *)
(*             not JSON;                                                   *)
(*   SpecRun   one run of the driver, never killed, on corpora of up to    *)
(*             three lines where every base may fail;                      *)
(*   SpecNoCrash  the driver of Spec where no process is killed.           *)
(***************************************************************************)
EXTENDS Integers, Sequences, FiniteSets, TLC

VARIABLES
    now,        \* time.time(), in seconds
    ticks,      \* number of clock advances so far (bounded by MaxTicks)
    vcache,     \* tmp/backfill_cache/version_discovery/<base>.json, per base
    mcache,     \* tmp/backfill_cache/metadata/<accession>.json, per accession
    call,       \* observation of the last find_all_assembly_versions call
    corpus,     \* the input JSONL: a sequence of accessions
    tasks,      \* driver local: assemblies_needing_backfill
    pc,         \* position of the driver
    start_index,\* driver local: start_index
    processed,  \* driver local: processed
    parsed,     \* driver local: parsed (the accumulator), as the set of its rows
    ckpt,       \* the checkpoint file
    output,     \* the output table: the batches appended so far, in order
    runs,       \* number of times the driver was started
    hist,       \* observation of the driver: the rows accumulated in the current
                \* run, the tasks whose last listing fetch failed, the span
                \* of the tasks discovered, the counts saved in the current
                \* run, and what the last task met
    codec       \* observation of the last parse_accession call

discVars   == <<now, ticks, vcache, mcache, call>>
driverVars == <<corpus, tasks, pc, start_index, processed, parsed, ckpt, output, runs, hist,
                codec>>
vars       == <<now, ticks, vcache, mcache, call,
                corpus, tasks, pc, start_index, processed, parsed, ckpt, output, runs, hist,
                codec>>

----------------------------------------------------------------------------
(* Bounds of the model *)

MaxTicks == 3
MaxLines == 3

(* Program constants *)

DiscoveryMaxAgeDays == 7
MetadataMaxAgeDays  == 30
BatchSize           == 100

DAY == 24 * 3600

\* The clock advances by one of these amounts: one second, just under seven
\* days, twenty-three days; their sums hit both max-ages exactly and one
\* second short of them.
TickSteps == {1, 7 * DAY - 1, 23 * DAY}

----------------------------------------------------------------------------
(* Accessions.  A base is the text GC[AF]_<digits>; the model keeps what the *)
(* code's regular expressions look at: whether the text starts with          *)
(* GC[AF]_ and digits, and how many digits follow.                           *)

BaseGood  == [id |-> 1, gc |-> TRUE,  ndigits |-> 9]
BaseShort == [id |-> 2, gc |-> TRUE,  ndigits |-> 8]
BaseOther == [id |-> 3, gc |-> FALSE, ndigits |-> 9]
DiscBases == {BaseGood, BaseShort, BaseOther}

\* Version numbers a directory listing may show.
Versions == {2, 10}

\* An accession is its text split at the dots: <<base, version>> for
\* "GCA_000002035.3", <<base>> for a text without a dot.  A part after a dot
\* is given by the number its digits write, or is NonNumeric when the text is
\* not one int() converts ("abc", "").
Acc(b, v) == <<b, v>>
NonNumeric == -1

\* The JSON object the datasets tool prints for an accession.
VersionData(a) == [accession |-> a]

----------------------------------------------------------------------------
(* Cache Store *)

\* A call either raises or returns a value.
Raised      == [raised |-> TRUE]
Returned(v) == [raised |-> FALSE, value |-> v]

\* A cache directory is a function from the identifiers that have a file to the
\* files; a file has a modification time and a content.
NoFiles     == <<>>
File(t, d)  == [mtime |-> t, data |-> d]

\* JSON objects are records carrying the set of their keys; {} has none.
EmptyDict            == [keys |-> {}]
DiscoveryPayload(vs) == [keys |-> {"versions", "base_accession", "discovered_at", "ftp_url"},
                         versions |-> vs]
MetadataPayload(d)   == [keys |-> {"metadata", "cached_at"}, metadata |-> d]

Truthy(d) == d.keys # {}

\* The content of a file that is not JSON (a truncated or garbled file).
Corrupt == [corrupt |-> TRUE]

\* json.load(f): JSONDecodeError for a content that is not JSON.
json_load(file) == IF file.data = Corrupt THEN Raised ELSE Returned(file.data)

\* load_from_cache with the age test turned around: only stale files are read.
load_from_cache_Inverted(cache, key, max_age_days, t) ==
    IF key \in DOMAIN cache
    THEN IF (t - cache[key].mtime) > (max_age_days * 24 * 3600)
         THEN IF json_load(cache[key]).raised
              THEN Returned(EmptyDict)
              ELSE json_load(cache[key])
         ELSE Returned(EmptyDict)
    ELSE Returned(EmptyDict)

\* load_from_cache with <= for <: a file of exactly max_age_days is still read.
load_from_cache_Inclusive(cache, key, max_age_days, t) ==
    IF key \in DOMAIN cache
    THEN IF (t - cache[key].mtime) <= (max_age_days * 24 * 3600)
         THEN IF json_load(cache[key]).raised
              THEN Returned(EmptyDict)
              ELSE json_load(cache[key])
         ELSE Returned(EmptyDict)
    ELSE Returned(EmptyDict)

\* load_from_cache without its exception handler: the error of json.load
\* reaches the caller.
load_from_cache_Uncaught(cache, key, max_age_days, t) ==
    IF key \in DOMAIN cache
    THEN IF (t - cache[key].mtime) < (max_age_days * 24 * 3600)
         THEN json_load(cache[key])
         ELSE Returned(EmptyDict)
    ELSE Returned(EmptyDict)

\* load_from_cache(cache_path, max_age_days): the file's content when the file
\* exists, is younger than max_age_days and holds JSON, {} otherwise.  Every
\* exception is caught inside (lines 65-72), so the call always returns.
load_from_cache(cache, key, max_age_days, t) ==
    IF key \in DOMAIN cache
    THEN IF (t - cache[key].mtime) < (max_age_days * 24 * 3600)
         THEN IF json_load(cache[key]).raised
              THEN Returned(EmptyDict)
              ELSE json_load(cache[key])
         ELSE Returned(EmptyDict)
    ELSE Returned(EmptyDict)

\* save_to_cache without its exception handler: the error of a failed write
\* reaches the caller.
save_to_cache_Uncaught(cache, key, data, t, writable) ==
    IF writable
    THEN Returned([k \in DOMAIN cache \cup {key} |->
                      IF k = key THEN File(t, data) ELSE cache[k]])
    ELSE Raised

\* save_to_cache(cache_path, data): writes the file (its mtime becomes the
\* current time); a failure to write is caught inside (lines 78-83) and leaves
\* the cache as it was, so the call always returns.
save_to_cache(cache, key, data, t, writable) ==
    IF writable
    THEN Returned([k \in DOMAIN cache \cup {key} |->
                      IF k = key THEN File(t, data) ELSE cache[k]])
    ELSE Returned(cache)

----------------------------------------------------------------------------
(* Version Discovery *)

\* Decimal text of a version number, and Python's string order on such texts.
RECURSIVE Digits(_)
Digits(n) == IF n < 10 THEN <<n>> ELSE Append(Digits(n \div 10), n % 10)

RECURSIVE StrLess(_, _)
StrLess(s, t) ==
    IF s = <<>> THEN t # <<>>
    ELSE IF t = <<>> THEN FALSE
    ELSE IF Head(s) # Head(t) THEN Head(s) < Head(t)
    ELSE StrLess(Tail(s), Tail(t))

\* sorted(list(set(found_versions))): the accessions of one base differ only in
\* the digits after the dot, and are ordered as strings.
RECURSIVE sorted(_)
sorted(S) ==
    IF S = {} THEN <<>>
    ELSE LET m == CHOOSE x \in S : \A y \in S \ {x} : StrLess(Digits(x), Digits(y))
         IN  <<m>> \o sorted(S \ {m})

\* re.match(r"^GC[AF]_\d{9}\.\d+$", version_acc)
StrictMatch(a) == Len(a) = 2 /\ a[1].gc /\ a[1].ndigits = 9

\* What the remote archive and the local file system answer during one call.
ListingResponses ==
    {[kind |-> "exception", found |-> {}], [kind |-> "non200", found |-> {}]}
    \cup {[kind |-> "ok", found |-> S] : S \in SUBSET Versions}
ToolOutcomes == {"ok", "fail"}
Envs ==
    UNION {[listing : {l}, tool : [l.found -> ToolOutcomes], writable : BOOLEAN] :
           l \in ListingResponses}

\* Lines 166-170: the tool's record is appended, then written to the metadata
\* cache; an exception of the write would be caught by the handler of line
\* 174, after the append.
FetchFromTool(st, version_acc, v, t, env) ==
    LET saved == save_to_cache(st.mcache, version_acc,
                               MetadataPayload(VersionData(version_acc)),
                               t, env.writable)
    IN  [st EXCEPT !.versions = Append(@, VersionData(version_acc)),
                   !.invoked = @ \cup {v},
                   !.mcache = IF saved.raised THEN @ ELSE saved.value]

\* FetchOne without the look into the metadata cache: every found version goes
\* to the datasets tool.
FetchOne_NoCacheLookup(st, b, v, t, env) ==
    LET version_acc == Acc(b, v)
    IN  IF ~StrictMatch(version_acc)
        THEN st
        ELSE IF env.tool[v] = "ok"
        THEN FetchFromTool(st, version_acc, v, t, env)
        ELSE [st EXCEPT !.invoked = @ \cup {v}, !.failed = @ \cup {v}]

\* FetchOne without the test of the strict pattern: every version missing from
\* the metadata cache goes to the datasets tool.
FetchOne_NoStrictCheck(st, b, v, t, env) ==
    LET version_acc == Acc(b, v)
        loaded      == load_from_cache(st.mcache, version_acc, MetadataMaxAgeDays, t)
    IN  IF loaded.raised
        THEN [st EXCEPT !.raised = TRUE]
        ELSE IF Truthy(loaded.value) /\ "metadata" \in loaded.value.keys
        THEN [st EXCEPT !.versions = Append(@, loaded.value.metadata),
                        !.mhits = @ \cup {v}]
        ELSE IF env.tool[v] = "ok"
        THEN FetchFromTool(st, version_acc, v, t, env)
        ELSE [st EXCEPT !.invoked = @ \cup {v}, !.failed = @ \cup {v}]

\* One iteration of "for version_acc in unique_versions" (lines 140-176):
\* st carries versions, the metadata cache, and which accessions were served
\* from the metadata cache (mhits), handed to the datasets tool (invoked), and
\* not resolved by it (failed: an error, a timeout, a non-zero exit, an empty
\* or unparsable output).  The read of the metadata cache (line 142) stands
\* outside the handler of line 174: an exception of it would leave the loop
\* (raised).
FetchOne(st, b, v, t, env) ==
    LET version_acc == Acc(b, v)
        loaded      == load_from_cache(st.mcache, version_acc, MetadataMaxAgeDays, t)
    IN  IF loaded.raised
        THEN [st EXCEPT !.raised = TRUE]
        ELSE IF Truthy(loaded.value) /\ "metadata" \in loaded.value.keys
        THEN [st EXCEPT !.versions = Append(@, loaded.value.metadata),
                        !.mhits = @ \cup {v}]
        ELSE IF ~StrictMatch(version_acc)
        THEN st
        ELSE IF env.tool[v] = "ok"
        THEN FetchFromTool(st, version_acc, v, t, env)
        ELSE [st EXCEPT !.invoked = @ \cup {v}, !.failed = @ \cup {v}]

\* FetchLoop leaving the loop at the first version the tool does not resolve.
RECURSIVE FetchLoop_AbortOnFailure(_, _, _, _, _)
FetchLoop_AbortOnFailure(st, b, todo, t, env) ==
    IF todo = <<>> \/ st.raised THEN st
    ELSE LET after == FetchOne(st, b, Head(todo), t, env)
         IN  IF after.failed # st.failed
             THEN after
             ELSE FetchLoop_AbortOnFailure(after, b, Tail(todo), t, env)

RECURSIVE FetchLoop(_, _, _, _, _)
FetchLoop(st, b, todo, t, env) ==
    IF todo = <<>> \/ st.raised THEN st
    ELSE FetchLoop(FetchOne(st, b, Head(todo), t, env), b, Tail(todo), t, env)

\* What a call did: the base it derived, whether it returned the discovery
\* cache's list (hit) or found a discovery file it did not use (stale), how the
\* listing fetch ended ("none": no fetch), the versions found in the listing,
\* those served from the metadata cache (mhits), those handed to the datasets
\* tool (invoked), those the tool did not resolve (failed), whether the cache
\* directory took the writes, whether the call ended by an exception (raised),
\* and the result.
NoCall == [base |-> BaseOther, hit |-> FALSE, stale |-> FALSE, listing |-> "none",
           found |-> {}, invoked |-> {}, mhits |-> {}, failed |-> {},
           writable |-> TRUE, raised |-> FALSE, result |-> <<>>]

\* find_all_assembly_versions(base_accession) at time t with caches vc, mc and
\* the environment's answers env: the returned list, the caches afterwards,
\* and what the call did (obs).  The read of the discovery cache (line 114)
\* stands outside the try of line 123: an exception of it would end the call.
\* An exception inside the try (lines 123-187) makes the call return [].
find_all_assembly_versions(base_accession, t, vc, mc, env) ==
    LET b      == base_accession[1]
        loaded == load_from_cache(vc, b, DiscoveryMaxAgeDays, t)
    IN  IF ~b.gc
        THEN [versions |-> <<>>, vcache |-> vc, mcache |-> mc,
              obs |-> [NoCall EXCEPT !.base = b]]
        ELSE IF loaded.raised
        THEN [versions |-> <<>>, vcache |-> vc, mcache |-> mc,
              obs |-> [NoCall EXCEPT !.base = b, !.stale = TRUE, !.raised = TRUE]]
        ELSE IF Truthy(loaded.value) /\ "versions" \in loaded.value.keys
        THEN [versions |-> loaded.value.versions, vcache |-> vc, mcache |-> mc,
              obs |-> [NoCall EXCEPT !.base = b, !.hit = TRUE,
                                     !.result = loaded.value.versions]]
        ELSE IF env.listing.kind # "ok"
        THEN [versions |-> <<>>, vcache |-> vc, mcache |-> mc,
              obs |-> [NoCall EXCEPT !.base = b, !.stale = b \in DOMAIN vc,
                                     !.listing = env.listing.kind]]
        ELSE LET unique_versions == sorted(env.listing.found)
                 st == FetchLoop([versions |-> <<>>, mcache |-> mc,
                                  invoked |-> {}, mhits |-> {}, failed |-> {},
                                  raised |-> FALSE],
                                 b, unique_versions, t, env)
                 saved == save_to_cache(vc, b, DiscoveryPayload(st.versions),
                                        t, env.writable)
                 done  == ~st.raised /\ ~saved.raised
                 versions == IF done THEN st.versions ELSE <<>>
             IN  [versions |-> versions,
                  vcache   |-> IF done THEN saved.value ELSE vc,
                  mcache   |-> st.mcache,
                  obs      |-> [base |-> b, hit |-> FALSE, stale |-> b \in DOMAIN vc,
                                listing |-> "ok", found |-> env.listing.found,
                                invoked |-> st.invoked, mhits |-> st.mhits,
                                failed |-> st.failed,
                                writable |-> env.writable, raised |-> FALSE,
                                result |-> versions]]

----------------------------------------------------------------------------
(* Accession Codec and Backfill Scan *)

\* int(text): ValueError for a text that is not an integer literal.
int(text) == IF text = NonNumeric THEN Raised ELSE Returned(text)

\* parse_version(accession): int(parts[1]) if len(parts) > 1 else 1
parse_version(accession) ==
    IF Len(accession) > 1 THEN int(accession[2]) ELSE Returned(1)

\* parse_accession(accession): (parts[0], int(parts[1]) if len(parts) > 1 else 1)
parse_accession(accession) ==
    LET version == IF Len(accession) > 1 THEN int(accession[2]) ELSE Returned(1)
    IN  IF version.raised THEN Raised
        ELSE Returned(<<accession[1], version.value>>)

\* The scan returning its tasks last line first.
identify_assemblies_needing_backfill_Reversed(lines) ==
    IF \E i \in 1..Len(lines) : parse_accession(lines[i]).raised
    THEN Raised
    ELSE LET NeedsBackfill(accession) == parse_accession(accession).value[2] > 1
             kept == SelectSeq(lines, NeedsBackfill)
         IN  Returned([k \in 1..Len(kept) |->
                LET accession == kept[Len(kept) + 1 - k]
                    base_acc  == parse_accession(accession).value[1]
                    version   == parse_accession(accession).value[2]
                IN  [base_accession    |-> base_acc,
                     current_version   |-> version,
                     current_accession |-> accession,
                     historical_versions_needed |-> [v \in 1..(version - 1) |-> v]]])

\* identify_assemblies_needing_backfill(input_jsonl): one task for each line
\* whose accession has a version above 1, in the order of the lines.  An
\* exception of parse_accession is not caught: it ends the scan, and the list
\* built so far is lost.
identify_assemblies_needing_backfill(lines) ==
    IF \E i \in 1..Len(lines) : parse_accession(lines[i]).raised
    THEN Raised
    ELSE LET NeedsBackfill(accession) == parse_accession(accession).value[2] > 1
             kept == SelectSeq(lines, NeedsBackfill)
         IN  Returned([k \in 1..Len(kept) |->
                LET accession == kept[k]
                    base_acc  == parse_accession(accession).value[1]
                    version   == parse_accession(accession).value[2]
                IN  [base_accession    |-> base_acc,
                     current_version   |-> version,
                     current_accession |-> accession,
                     historical_versions_needed |-> [v \in 1..(version - 1) |-> v]]])

----------------------------------------------------------------------------
(* Checkpoint Store *)

\* The checkpoint file: absent, or there with a complete JSON object, or
\* there but empty (opened for writing, nothing flushed yet).
NoCheckpoint == [exists |-> FALSE]

\* load_checkpoint(checkpoint_file): the file's JSON object, {} without a file;
\* json.load raises on a file that holds no complete JSON text.
load_checkpoint(file) ==
    IF file.exists
    THEN IF file.complete THEN Returned(file.data) ELSE Raised
    ELSE Returned(EmptyDict)

\* open(checkpoint_file, 'w') (line 282): the file is created or truncated.
open_w(file) == [exists |-> TRUE, complete |-> FALSE]

\* save_checkpoint writing the number of tasks left of two batches.
save_checkpoint_Remaining(file, processed_count) ==
    [exists   |-> TRUE,
     complete |-> TRUE,
     data     |-> [keys |-> {"processed_count", "timestamp"},
                   processed_count |-> 2 * BatchSize - processed_count]]

\* save_checkpoint(checkpoint_file, processed_count): the file once json.dump
\* is through and the file closed.
save_checkpoint(file, processed_count) ==
    [exists   |-> TRUE,
     complete |-> TRUE,
     data     |-> [keys |-> {"processed_count", "timestamp"},
                   processed_count |-> processed_count]]

\* checkpoint.get('processed_count', 0) with the stored count ignored.
ProcessedCount_FromZero(checkpoint) == 0

\* checkpoint.get('processed_count', 0)
ProcessedCount(checkpoint) ==
    IF "processed_count" \in checkpoint.keys THEN checkpoint.processed_count ELSE 0

----------------------------------------------------------------------------
(* Backfill Driver *)

\* Corpora of the driver's specification: n records GCA_<i>.2, i = 1..n, so
\* every record yields a task with one superseded version.  The corpus sizes
\* are none, one, one batch, one batch and ExtraTasks more, and two batches.
ExtraTasks  == 1
MaxRuns     == 2

DriverBase(i) == [id |-> i, gc |-> TRUE, ndigits |-> 9]
Corpus(n)     == [i \in 1..n |-> Acc(DriverBase(i), 2)]
CorpusSizes   == {0, 1, BatchSize, BatchSize + ExtraTasks, 2 * BatchSize}

\* The bases for which the archive, the datasets tool or the parser may fail:
\* the last of the first batch; its listing shows any of the versions up to
\* the one after the current.  For every
\* other base the listing shows versions 1..current, the tool answers and the
\* parser succeeds.
FlakyIds == {BatchSize}

\* In the driver's specification the cache directory cannot be written, so
\* every discovery is a fresh one.
DriverEnvs(task) ==
    LET all == 1..task.current_version
        any == 1..(task.current_version + 1)
    IN  IF task.base_accession.id \in FlakyIds
        THEN UNION {[listing : {l}, tool : [l.found -> ToolOutcomes], writable : {FALSE}] :
                    l \in {[kind |-> "exception", found |-> {}],
                           [kind |-> "non200", found |-> {}]}
                          \cup {[kind |-> "ok", found |-> S] : S \in SUBSET any}}
        ELSE {[listing  |-> [kind |-> "ok", found |-> all],
               tool     |-> [v \in all |-> "ok"],
               writable |-> FALSE]}

\* The versions whose parse_historical_version may raise.
ParseFailures(task) ==
    IF task.base_accession.id \in FlakyIds
    THEN SUBSET (1..task.current_version)
    ELSE {{}}

\* parse_historical_version with the identity built from the current
\* accession's version.
parse_historical_version_CurrentIdentity(version_data, base_accession, version_num, current_accession) ==
    [accession  |-> version_data.accession,
     assemblyID |-> <<base_accession, parse_version(current_accession).value>>]

\* parse_historical_version(version_data, config, base_accession, version_num,
\* current_accession) when no step raises: the row of the record, with the
\* identity f"{base_accession}_{version_num}" of line 245.  The other columns
\* are values of the record; the model keeps the record's accession, under
\* which the driver files the row (line 413).
parse_historical_version(version_data, base_accession, version_num, current_accession) ==
    [accession  |-> version_data.accession,
     assemblyID |-> <<base_accession, version_num>>]

\* ParsedRows with an exception ending the loop over the records.
ParsedRows_AbortOnRaise(all_versions, base_acc, current_version, current_accession, bad) ==
    {parse_historical_version(all_versions[j], base_acc,
                              parse_version(all_versions[j].accession).value,
                              current_accession) : j \in
        {j \in 1..Len(all_versions) :
            /\ ~(parse_version(all_versions[j].accession).value >= current_version)
            /\ \A i \in 1..j :
                  \/ parse_version(all_versions[i].accession).value >= current_version
                  \/ parse_version(all_versions[i].accession).value \notin bad}}

\* ParsedRows with > for >= in the test of line 396.
ParsedRows_InclusiveFilter(all_versions, base_acc, current_version, current_accession, bad) ==
    {parse_historical_version(all_versions[j], base_acc,
                              parse_version(all_versions[j].accession).value,
                              current_accession) : j \in
        {j \in 1..Len(all_versions) :
            LET version_acc == all_versions[j].accession
                version_num == parse_version(version_acc).value
            IN  ~(version_num > current_version) /\ version_num \notin bad}}

\* ParsedRows with the loop over the records starting at the second.
ParsedRows_SkipsFirst(all_versions, base_acc, current_version, current_accession, bad) ==
    {parse_historical_version(all_versions[j], base_acc,
                              parse_version(all_versions[j].accession).value,
                              current_accession) : j \in
        {j \in 2..Len(all_versions) :
            LET version_acc == all_versions[j].accession
                version_num == parse_version(version_acc).value
            IN  ~(version_num >= current_version) /\ version_num \notin bad}}

\* For every base the archive, the datasets tool and the parser may fail, and
\* the listing shows any of the versions up to the one after the current.
RunEnvs(task) ==
    UNION {[listing : {l}, tool : [l.found -> ToolOutcomes], writable : {FALSE}] :
           l \in {[kind |-> "exception", found |-> {}],
                  [kind |-> "non200", found |-> {}]}
                 \cup {[kind |-> "ok", found |-> S] :
                           S \in SUBSET (1..(task.current_version + 1))}}

RunFailures(task) == SUBSET (1..(task.current_version - 1))

\* Lines 392-420: the rows added to parsed for one task; bad holds the
\* versions whose parse_historical_version raises, which the handler of line
\* 418 catches for that record.
ParsedRows(all_versions, base_acc, current_version, current_accession, bad) ==
    {parse_historical_version(all_versions[j], base_acc,
                              parse_version(all_versions[j].accession).value,
                              current_accession) : j \in
        {j \in 1..Len(all_versions) :
            LET version_acc == all_versions[j].accession
                version_num == parse_version(version_acc).value
            IN  ~(version_num >= current_version) /\ version_num \notin bad}}

\* parsed[genbank_acc] = row (line 414) for every row of a task.  A row is
\* filed under its record's accession, which determines the row: a row that
\* replaces another of the same accession equals it, so the dictionary is the
\* set of its rows.
Filed(dict, rows) == dict \cup rows

\* gh_utils.write_tsv(parsed, ...): the output table with the batch appended.
write_tsv(out, rows) == Append(out, rows)

\* AfterTask going to the checkpoint save past the write of the batch.
AfterTask_SaveWithoutWrite(n) == IF n % BatchSize = 0 THEN "save" ELSE "loop"

\* Line 425: where the driver goes after a task that was parsed.
AfterTask(n) == IF n % BatchSize = 0 THEN "write" ELSE "loop"

\* first and last are the positions of the first and the last task discovered
\* in the run (0: none yet); consecutive tells that each task discovered was
\* the one after the task discovered before it.  For the last task
\* discovered, returned is the list discovery returned, and bad the versions
\* below the task's current version whose parse raised.  before is the
\* number of batches the output held when the run started.
NoHist == [rows |-> {}, deferred |-> {}, first |-> 0, last |-> 0,
           consecutive |-> TRUE, saved |-> <<>>, returned |-> <<>>, bad |-> {},
           before |-> 0]

\* The observation with what belongs to one run forgotten.
NewRun(h) == [h EXCEPT !.rows = {}, !.first = 0, !.last = 0,
                       !.consecutive = TRUE, !.saved = <<>>,
                       !.returned = <<>>, !.bad = {}]

NoParse == [accession |-> <<>>, result |-> Raised]

OutputRows == UNION {output[j] : j \in 1..Len(output)}

----------------------------------------------------------------------------
(* Specification of Version Discovery *)

DriverIdle ==
    /\ tasks = <<>>
    /\ pc = "idle"
    /\ start_index = 0
    /\ processed = 0
    /\ parsed = {}
    /\ ckpt = NoCheckpoint
    /\ output = <<>>
    /\ runs = 0
    /\ hist = NoHist
    /\ codec = NoParse

DiscCold ==
    /\ now = 0
    /\ ticks = 0
    /\ vcache = NoFiles
    /\ mcache = NoFiles
    /\ call = NoCall

\* The corpus holds one record; discovery is called for its accession.
InitDisc ==
    /\ DiscCold
    /\ DriverIdle
    /\ \E b \in DiscBases : corpus = <<Acc(b, 2)>>

\* A call of find_all_assembly_versions(acc).
Discover(acc) ==
    \E env \in Envs :
        LET r == find_all_assembly_versions(acc, now, vcache, mcache, env)
        IN  /\ vcache' = r.vcache
            /\ mcache' = r.mcache
            /\ call' = r.obs
            /\ UNCHANGED <<now, ticks>>
            /\ UNCHANGED driverVars

\* Time passes.
Tick ==
    /\ ticks < MaxTicks
    /\ \E d \in TickSteps : now' = now + d
    /\ ticks' = ticks + 1
    /\ UNCHANGED <<vcache, mcache, call>>
    /\ UNCHANGED driverVars

NextDisc ==
    \/ \E i \in 1..Len(corpus) : Discover(corpus[i])
    \/ Tick

SpecDisc == InitDisc /\ [][NextDisc]_vars

----------------------------------------------------------------------------
(* Specification of the Cache Store under Version Discovery *)

\* The caches may hold, from an earlier process, files that are not JSON: the
\* discovery file of the base, the metadata file of one of its versions.
InitCache ==
    /\ now = 0
    /\ ticks = 0
    /\ call = NoCall
    /\ vcache \in {NoFiles, [k \in {BaseGood} |-> File(0, Corrupt)]}
    /\ mcache \in {NoFiles, [k \in {Acc(BaseGood, 2)} |-> File(0, Corrupt)]}
    /\ DriverIdle
    /\ corpus = <<Acc(BaseGood, 2)>>

SpecCache == InitCache /\ [][NextDisc]_vars

----------------------------------------------------------------------------
(* Specification of the Backfill Driver *)

Init ==
    /\ DiscCold
    /\ DriverIdle
    /\ \E n \in CorpusSizes : corpus = Corpus(n)

\* Lines 343-374: the scan, and, unless it finds no task, the checkpoint load.
\* The driver is started when it is not running: first, after a crash or an
\* abort, or again after it is done.  An exception of the scan or of
\* load_checkpoint is caught nowhere: the process aborts.
Start ==
    /\ pc \in {"idle", "done", "aborted"}
    /\ runs < MaxRuns
    /\ runs' = runs + 1
    /\ LET scan       == identify_assemblies_needing_backfill(corpus)
           checkpoint == load_checkpoint(ckpt)
       IN  IF scan.raised
           THEN /\ pc' = "aborted"
                /\ tasks' = <<>>
                /\ start_index' = 0
                /\ processed' = 0
           ELSE IF scan.value = <<>>
           THEN /\ pc' = "done"
                /\ tasks' = <<>>
                /\ start_index' = 0
                /\ processed' = 0
           ELSE IF checkpoint.raised
           THEN /\ pc' = "aborted"
                /\ tasks' = <<>>
                /\ start_index' = 0
                /\ processed' = 0
           ELSE /\ pc' = "loop"
                /\ tasks' = scan.value
                /\ start_index' = ProcessedCount(checkpoint.value)
                /\ processed' = ProcessedCount(checkpoint.value)
    /\ parsed' = {}
    /\ hist' = [NewRun(hist) EXCEPT !.before = Len(output)]
    /\ UNCHANGED <<corpus, ckpt, output, codec>>
    /\ UNCHANGED discVars

\* Lines 376-425: one iteration of the loop over the tasks from start_index on,
\* up to the test of the batch boundary.  The answers of the archive and the
\* tool and the versions whose parse raises are those of the driver's
\* specification, or, with any_base_fails, those where every base may fail.
ProcessTaskIn(any_base_fails) ==
    /\ pc = "loop"
    /\ processed < Len(tasks)
    /\ LET assembly_info     == tasks[processed + 1]
           current_version   == assembly_info.current_version
           current_accession == assembly_info.current_accession
           base_acc          == assembly_info.base_accession
           Environments      == IF any_base_fails THEN RunEnvs(assembly_info)
                                                   ELSE DriverEnvs(assembly_info)
           Failures          == IF any_base_fails THEN RunFailures(assembly_info)
                                                   ELSE ParseFailures(assembly_info)
       IN  \E env \in Environments, bad \in Failures :
             LET r == find_all_assembly_versions(current_accession, now, vcache, mcache, env)
                 all_versions == r.versions
                 rows == ParsedRows(all_versions, base_acc, current_version,
                                    current_accession, bad)
             IN  /\ vcache' = r.vcache
                 /\ mcache' = r.mcache
                 /\ processed' = processed + 1
                 /\ IF all_versions = <<>>
                    THEN /\ parsed' = parsed
                         /\ pc' = "loop"
                    ELSE /\ parsed' = Filed(parsed, rows)
                         /\ pc' = AfterTask(processed')
                 /\ hist' = [hist EXCEPT
                               !.rows = IF all_versions = <<>> THEN @ ELSE Filed(@, rows),
                               !.returned = all_versions,
                               !.bad = bad \cap {parse_version(all_versions[j].accession).value :
                                                    j \in 1..Len(all_versions)}
                                           \cap 1..(current_version - 1),
                               !.deferred = IF r.obs.listing \in {"exception", "non200"}
                                            THEN @ \cup {processed + 1}
                                            ELSE @ \ {processed + 1},
                               !.first = IF @ = 0 THEN processed + 1 ELSE @,
                               !.last = processed + 1,
                               !.consecutive = @ /\ (hist.last = 0 \/
                                                     processed + 1 = hist.last + 1)]
    /\ UNCHANGED <<corpus, tasks, start_index, ckpt, output, runs, codec>>
    /\ UNCHANGED <<now, ticks, call>>

\* The loop body in the driver's specification.
ProcessTask == ProcessTaskIn(FALSE)

\* Lines 426-427: the batch is written to the output.
WriteBatch ==
    /\ pc = "write"
    /\ output' = write_tsv(output, parsed)
    /\ pc' = "save"
    /\ UNCHANGED <<corpus, tasks, start_index, processed, parsed, ckpt, runs, hist, codec>>
    /\ UNCHANGED discVars

\* Lines 281-282, the first half of save_checkpoint: the directory is made and
\* the file opened for writing, which empties it.  When either fails the
\* OSError is caught nowhere: the process aborts, the file is as it was.
OpenCheckpoint ==
    /\ pc = "save"
    /\ \E ok \in BOOLEAN :
         IF ok
         THEN /\ ckpt' = open_w(ckpt)
              /\ pc' = "dump"
              /\ UNCHANGED <<tasks, start_index, processed, parsed, hist>>
         ELSE /\ ckpt' = ckpt
              /\ pc' = "aborted"
              /\ tasks' = <<>>
              /\ start_index' = 0
              /\ processed' = 0
              /\ parsed' = {}
              /\ hist' = NewRun(hist)
    /\ UNCHANGED <<corpus, output, runs, codec>>
    /\ UNCHANGED discVars

\* SaveCheckpoint without line 430: the accumulator keeps the rows written.
SaveCheckpoint_KeepsAccumulator ==
    /\ pc = "dump"
    /\ ckpt' = save_checkpoint(ckpt, processed)
    /\ parsed' = parsed
    /\ pc' = "loop"
    /\ hist' = [hist EXCEPT !.saved = Append(@, ckpt'.data.processed_count)]
    /\ UNCHANGED <<corpus, tasks, start_index, processed, output, runs, codec>>
    /\ UNCHANGED discVars

\* Lines 283-286 and 429-430: the checkpoint is written and the file closed,
\* and the accumulator emptied.
SaveCheckpoint ==
    /\ pc = "dump"
    /\ ckpt' = save_checkpoint(ckpt, processed)
    /\ parsed' = {}
    /\ pc' = "loop"
    /\ hist' = [hist EXCEPT !.saved = Append(@, ckpt'.data.processed_count)]
    /\ UNCHANGED <<corpus, tasks, start_index, processed, output, runs, codec>>
    /\ UNCHANGED discVars

\* Finish without the final write.
Finish_NoFinalWrite ==
    /\ pc = "loop"
    /\ ~(processed < Len(tasks))
    /\ output' = output
    /\ pc' = "done"
    /\ UNCHANGED <<corpus, tasks, start_index, processed, parsed, ckpt, runs, hist, codec>>
    /\ UNCHANGED discVars

\* Lines 432-444: after the last task, the final write.
Finish ==
    /\ pc = "loop"
    /\ ~(processed < Len(tasks))
    /\ output' = IF parsed # {} THEN write_tsv(output, parsed) ELSE output
    /\ pc' = "done"
    /\ UNCHANGED <<corpus, tasks, start_index, processed, parsed, ckpt, runs, hist, codec>>
    /\ UNCHANGED discVars

\* The process dies: its locals are gone, the files stay.
Crash ==
    /\ pc \in {"loop", "write", "save", "dump"}
    /\ pc' = "idle"
    /\ tasks' = <<>>
    /\ start_index' = 0
    /\ processed' = 0
    /\ parsed' = {}
    /\ hist' = NewRun(hist)
    /\ UNCHANGED <<corpus, ckpt, output, runs, codec>>
    /\ UNCHANGED discVars

Next ==
    \/ Start
    \/ ProcessTask
    \/ WriteBatch
    \/ OpenCheckpoint
    \/ SaveCheckpoint
    \/ Finish
    \/ Crash

Spec == Init /\ [][Next]_vars

\* The driver where no process is killed: a run ends by itself.
NextNoCrash ==
    \/ Start
    \/ ProcessTask
    \/ WriteBatch
    \/ OpenCheckpoint
    \/ SaveCheckpoint
    \/ Finish

SpecNoCrash == Init /\ [][NextNoCrash]_vars

----------------------------------------------------------------------------
(* Specification of an uninterrupted run of the Backfill Driver *)

\* The accessions of the lines: A.1, B.3 and C.2 for three bases A, B, C.
BaseA == DriverBase(1)
BaseB == DriverBase(2)
BaseC == DriverBase(3)
RunAccessions == {Acc(BaseA, 1), Acc(BaseB, 3), Acc(BaseC, 2)}

\* The corpora: the sequences of distinct lines.
RunCorpora ==
    {c \in UNION {[1..n -> RunAccessions] : n \in 0..Cardinality(RunAccessions)} :
        \A i, j \in 1..Len(c) : i # j => c[i] # c[j]}

\* The driver is started once: no run left a file, and no run follows.
InitRun ==
    /\ DiscCold
    /\ tasks = <<>>
    /\ pc = "idle"
    /\ start_index = 0
    /\ processed = 0
    /\ parsed = {}
    /\ ckpt = NoCheckpoint
    /\ output = <<>>
    /\ runs = MaxRuns - 1
    /\ hist = NoHist
    /\ codec = NoParse
    /\ corpus \in RunCorpora

\* The loop body where any base may fail.
ProcessTaskAnyEnv == ProcessTaskIn(TRUE)

\* No crash: a run that starts goes on to its end.
NextRun ==
    \/ Start
    \/ ProcessTaskAnyEnv
    \/ Finish

SpecRun == InitRun /\ [][NextRun]_vars

----------------------------------------------------------------------------
(* Specification of the Accession Codec and the Backfill Scan *)

\* The accessions of the lines: GCA_000000001 (no dot), GCA_000000001.1,
\* GCA_000000001.3, GCA_00000002.2, GCA_000000001.abc (no integer after the
\* dot) and GCA_000000001.2.1 (two dots).
ScanAccessions ==
    {<<BaseGood>>, Acc(BaseGood, 1), Acc(BaseGood, 3), Acc(BaseShort, 2),
     Acc(BaseGood, NonNumeric), <<BaseGood, 2, 1>>}

ScanCorpora == UNION {[1..n -> ScanAccessions] : n \in 0..MaxLines}

InitScan ==
    /\ DiscCold
    /\ DriverIdle
    /\ corpus \in ScanCorpora

\* A call of parse_accession(acc).
ParseAccession(acc) ==
    /\ codec' = [accession |-> acc, result |-> parse_accession(acc)]
    /\ UNCHANGED <<corpus, tasks, pc, start_index, processed, parsed, ckpt, output, runs, hist>>
    /\ UNCHANGED discVars

NextScan ==
    \/ Start
    \/ \E i \in 1..Len(corpus) : ParseAccession(corpus[i])
    \/ Crash

SpecScan == InitScan /\ [][NextScan]_vars

----------------------------------------------------------------------------
(* Properties of the Backfill Driver, of specification Spec *)

\* The count the checkpoint file stores: none without a file or in an empty one.
CheckpointCount ==
    IF ckpt.exists /\ ckpt.complete THEN ckpt.data.processed_count ELSE 0

\* C1: when the driver is done after processing a non-empty task list, the
\* rows of the accumulator are in the output and the checkpoint file holds
\* the number of tasks processed.
C1_FinalFlushSavesCheckpoint ==
    (pc = "done" /\ tasks # <<>>) =>
        /\ parsed \subseteq OutputRows
        /\ CheckpointCount = processed

\* C2: whenever the driver is about to start the next task (or to leave the
\* loop) and the number of tasks processed in this run has reached a multiple
\* of the batch size, the accumulator is empty and the checkpoint holds that
\* number.
C2_FlushAtEveryBatch ==
    (pc = "loop" /\ processed > start_index /\ processed % BatchSize = 0) =>
        /\ parsed = {}
        /\ CheckpointCount = processed

\* The rows every processing of task i yields: one for the superseded version
\* of a base that never fails, none that is certain for a flaky base.
CertainRows(i) ==
    IF i \in FlakyIds THEN {}
    ELSE {[accession |-> Acc(DriverBase(i), 1), assemblyID |-> <<DriverBase(i), 1>>]}

\* C3: in every state, also after a crash, the tasks the checkpoint counts as
\* processed have their rows in the output: the rows every processing of
\* them yields, and the rows the current run accumulated for them.
C3_CheckpointBehindOutput ==
    LET n       == CheckpointCount
        written == OutputRows
    IN  /\ n <= Len(corpus)
        /\ UNION {CertainRows(i) : i \in 1..n} \subseteq written
        /\ {k \in hist.rows : k.accession[1].id <= n} \subseteq written

\* C3, its case: the driver crashed after it had saved the checkpoint of a batch.
C3_Witness ==
    /\ pc = "idle"
    /\ runs = 1
    /\ CheckpointCount = BatchSize

\* C4: while the driver runs, the tasks it has processed beyond the checkpoint
\* (those a restart after a crash would process again) are at most one batch.
C4_ReprocessAtMostOneBatch ==
    pc \in {"loop", "write", "save", "dump"} => processed - CheckpointCount <= BatchSize

\* C7: a task whose last listing fetch failed is not counted by the
\* checkpoint, so that a later run discovers its base again.
C7_FailedBaseStaysPending ==
    \A i \in hist.deferred : CheckpointCount < i

\* The driver is past the checkpoint load and not yet done.
Running == {"loop", "write", "save", "dump"}

\* C14: a failure to create or open the checkpoint file does not abort the
\* run: no step from the point where save_checkpoint is called ends in the
\* aborted process.
C14_CheckpointWriteFailureNotFatal ==
    [][pc = "save" => pc' # "aborted"]_vars

\* C15: in every state, also in the middle of save_checkpoint and after a
\* crash there, the checkpoint file is absent or holds a complete checkpoint,
\* so that load_checkpoint does not fail on it.
C15_CheckpointNeverHalfWritten ==
    /\ ckpt.exists => ckpt.complete
    /\ ~load_checkpoint(ckpt).raised

\* C16: the counts written to the checkpoint file in one run never decrease,
\* and none is below the count the run loaded.
C16_CheckpointMonotone ==
    \A j \in 1..Len(hist.saved) :
        /\ hist.saved[j] >= start_index
        /\ j > 1 => hist.saved[j - 1] <= hist.saved[j]

\* C16, its case: a run has written the checkpoint twice.
C16_Witness ==
    Len(hist.saved) = 2

\* C17: a run that gets past the scan starts at the count the checkpoint file
\* stores (0 without a file); its task list is the full list of the corpus;
\* and the tasks it has discovered so far are those at the positions after
\* that count, one after the other, none before it.
C17_ResumeSkipsPrefix ==
    [][/\ (pc \notin Running /\ pc' = "loop") =>
              /\ start_index' = CheckpointCount
              /\ processed' = start_index'
              /\ Len(tasks') = Len(corpus)
              /\ \A i \in 1..Len(tasks') : tasks'[i].current_accession = corpus[i]
              /\ hist'.last = 0
       /\ (pc' \in Running \/ (pc' = "done" /\ tasks' # <<>>)) =>
              /\ tasks' # tasks => pc \notin Running
              /\ hist'.consecutive
              /\ hist'.last # 0 =>
                     (hist'.first = start_index' + 1 /\ hist'.last = processed')
              /\ hist'.last = 0 => processed' = start_index'
       /\ (pc' = "done" /\ tasks' # <<>>) => processed' = Len(tasks')]_vars

\* C17, its case: a run resumed from the checkpoint of the first batch and has
\* processed the task after it.
C17_Witness ==
    /\ pc = "loop"
    /\ start_index = BatchSize
    /\ processed > start_index

\* The batches the current run (or the last one) appended to the output.
BatchesOfRun == {j \in 1..Len(output) : j > hist.before}

\* C28 as stated: no row is in two batches of the output.
C28_AtMostOnceAcrossRuns ==
    \A i, j \in 1..Len(output) : i # j => output[i] \cap output[j] = {}

\* C28, amended: no row is in two batches that one run appended, and a run
\* appends no row of a task before the checkpoint count it loaded.
C28_AtMostOncePerRunPastCheckpoint ==
    /\ \A i, j \in BatchesOfRun : i # j => output[i] \cap output[j] = {}
    /\ pc \in Running \cup {"done"} =>
          \A j \in BatchesOfRun : \A r \in output[j] : r.accession[1].id > start_index

\* C28, its case: a run that resumed from the checkpoint of the first batch
\* has appended a batch, after a run that had appended two.
C28_Witness ==
    /\ start_index = BatchSize
    /\ hist.before = 2
    /\ Len(output) = 3

\* C29: when the driver is done, whatever crashes and restarts came before,
\* every task of the corpus has been processed by this run or lies before the
\* checkpoint it loaded, and the output holds the rows every processing of a
\* task yields and the rows this run accumulated.
C29_AtLeastOnce ==
    pc = "done" =>
        /\ Len(tasks) = Len(corpus)
        /\ processed = Len(tasks)
        /\ UNION {CertainRows(i) : i \in 1..Len(tasks)} \subseteq OutputRows
        /\ hist.rows \subseteq OutputRows

\* C29, its case: a run that resumed from the checkpoint of the first batch,
\* after a crash, is done with a corpus longer than the batch.
C29_Witness ==
    /\ pc = "done"
    /\ runs = 2
    /\ start_index = BatchSize
    /\ Len(tasks) > BatchSize

\* C30: when no process is killed, a run that has loaded the checkpoint stays
\* in the loop and its flushes until it is done, and a start leads to the
\* loop or, with an empty task list, directly to done with the output and
\* the checkpoint untouched.
C30_RunEndsDone ==
    [][/\ pc \in Running => pc' \in Running \cup {"done"}
       /\ (pc \notin Running /\ pc' # pc) => pc' \in {"loop", "done"}
       /\ (pc \notin Running /\ pc' = "done") =>
              (tasks' = <<>> /\ output' = output /\ ckpt' = ckpt)]_vars

----------------------------------------------------------------------------
(* Properties of an uninterrupted run, of specification SpecRun *)

\* A step that is one iteration of the loop over the tasks.
IsTaskStep == processed' = processed + 1

\* The accessions under which rows are filed.
Accessions(rows) == {r.accession : r \in rows}

\* The records of a list that identify a version below current_version.
Older(list, current_version) ==
    {list[j] : j \in {j \in 1..Len(list) : list[j].accession[2] < current_version}}

\* C21: every row in the accumulator or the output has the identity made of
\* the base and the version of its own record; no row has the identity of a
\* line of the corpus, which is the current accession of its base; and rows
\* of different accessions have different identities.
C21_HistoricalIdentity ==
    \A r \in parsed \cup OutputRows :
        /\ r.assemblyID = <<r.accession[1], r.accession[2]>>
        /\ \A i \in 1..Len(corpus) : r.assemblyID # <<corpus[i][1], corpus[i][2]>>
        /\ \A q \in parsed \cup OutputRows :
              q.accession # r.accession => q.assemblyID # r.assemblyID

\* C21, its case: the output holds the rows of two versions of one base.
C21_Witness ==
    \E r, q \in OutputRows : r # q /\ r.accession[1] = q.accession[1]

\* C22: in the iteration for a task, a record below the current version
\* whose parse raises leaves no row, every other record below the current
\* version leaves its row, and the driver stays in the loop; and the driver
\* is done only when every task has been processed.
C22_ParseFailureSkipsOnlyThatRecord ==
    [][/\ IsTaskStep =>
              /\ pc' \in Running
              /\ \A rec \in Older(hist'.returned, tasks[processed'].current_version) :
                    IF rec.accession[2] \in hist'.bad
                    THEN rec.accession \notin Accessions(parsed')
                    ELSE rec.accession \in Accessions(parsed')
       /\ pc' = "done" => processed' = Len(tasks')]_vars

\* C22, its case: the driver is done after two tasks, and in the second the
\* parse of one record raised while another record of that task left its row.
C22_Witness ==
    /\ pc = "done"
    /\ processed = 2
    /\ hist.bad # {}
    /\ \E r \in OutputRows : r.accession[1] = tasks[processed].base_accession

C24_RowsAreTheParsedOlderVersions ==
    [][/\ IsTaskStep =>
              LET task     == tasks[processed']
                  expected == {rec.accession :
                                  rec \in {o \in Older(hist'.returned, task.current_version) :
                                              o.accession[2] \notin hist'.bad}}
              IN  /\ Accessions(parsed') = Accessions(parsed) \cup expected
                  /\ Cardinality(parsed') = Cardinality(Accessions(parsed'))
                  /\ pc' \in Running
       /\ pc' = "done" =>
              /\ Len(tasks') = Cardinality({i \in 1..Len(corpus) : corpus[i][2] > 1})
              /\ processed' = Len(tasks')
              /\ OutputRows' = parsed
              /\ Len(output') = IF parsed = {} THEN 0 ELSE 1]_vars

\* C24, its case: the corpus A.1, B.3, C.2 gave two tasks; discovery returned
\* only B.2 for B and nothing for C; the driver is done and the output holds
\* one row, that of B.2.
C24_Witness ==
    /\ corpus = <<Acc(BaseA, 1), Acc(BaseB, 3), Acc(BaseC, 2)>>
    /\ pc = "done"
    /\ Len(tasks) = 2
    /\ hist.returned = <<>>
    /\ output = <<{[accession |-> Acc(BaseB, 2), assemblyID |-> <<BaseB, 2>>]}>>

----------------------------------------------------------------------------
(* Properties of Version Discovery, of specification SpecDisc *)

\* A step of SpecDisc that is a call of find_all_assembly_versions.
IsCall == ticks' = ticks

\* The discovery cache holds a file for base b that is younger than seven days.
DiscoveryEntryValid(b) ==
    b \in DOMAIN vcache /\ now - vcache[b].mtime < DiscoveryMaxAgeDays * DAY

\* The metadata cache holds a file for accession a that is younger than thirty days.
MetadataEntryValid(a) ==
    a \in DOMAIN mcache /\ now - mcache[a].mtime < MetadataMaxAgeDays * DAY

\* The versions the records of a list identify.
RecordVersions(list) == {list[j].accession[2] : j \in 1..Len(list)}

\* C5: a call that fetched the listing and obtained no candidate (the fetch
\* failed, or the listing holds no match) returns the empty list and leaves
\* the discovery cache as it was.
C5_NoCandidatesNothingCached ==
    [][(IsCall /\ call'.listing # "none" /\ call'.found = {}) =>
           (call'.result = <<>> /\ vcache' = vcache)]_vars

\* C6: when the last call discovered afresh and the discovery cache holds a
\* valid entry for its base, the entry's list has a record for every version
\* the call found in the listing.
C6_CachedEntryComplete ==
    (call.listing = "ok" /\ DiscoveryEntryValid(call.base)) =>
        RecordVersions(vcache[call.base].data.versions) = call.found

\* C8: a call made while the discovery cache holds a valid entry for the base
\* returns the entry's list, which is the list the call before returned, and
\* fetches no listing, invokes no tool and writes no cache.
C8_WarmCacheIdempotent ==
    [][(IsCall /\ DiscoveryEntryValid(call'.base)) =>
           /\ call'.hit
           /\ call'.result = vcache[call'.base].data.versions
           /\ call'.result = call.result
           /\ call'.listing = "none"
           /\ call'.invoked = {}
           /\ call'.mhits = {}
           /\ vcache' = vcache
           /\ mcache' = mcache]_vars

\* C8, its case: the last call returned a non-empty list from the cache.
C8_Witness ==
    call.hit /\ call.result # <<>>

\* C9: a call returns the discovery cache's list only if the entry is younger
\* than seven days at the call, and otherwise fetches the listing; it takes a
\* record from the metadata cache only if that entry is younger than thirty
\* days at the call.
C9_ExpiredEntryNotReturned ==
    [][IsCall =>
           /\ call'.hit => DiscoveryEntryValid(call'.base)
           /\ (call'.base.gc /\ ~DiscoveryEntryValid(call'.base)) =>
                  (~call'.hit /\ call'.listing # "none")
           /\ \A v \in call'.mhits : MetadataEntryValid(Acc(call'.base, v))
           /\ \A v \in call'.found :
                  MetadataEntryValid(Acc(call'.base, v)) => v \in call'.mhits]_vars

\* C9, its case: the last call found a discovery file that is exactly seven
\* days old, did not use it, and its listing fetch failed (the file is still there).
C9_Witness ==
    /\ call.stale
    /\ call.listing = "non200"
    /\ call.base \in DOMAIN vcache
    /\ now - vcache[call.base].mtime = DiscoveryMaxAgeDays * DAY

\* C10 as stated: the tool is invoked for a found version only without a valid
\* metadata entry; with one, the cached record is used and the tool is not
\* invoked; and after a fetch that returned a record, the metadata cache holds
\* a valid entry for it.
C10_FetchOnlyOnMissAndCached ==
    [][IsCall =>
           \A v \in call'.found :
               LET a == Acc(call'.base, v)
               IN  /\ v \in call'.invoked => ~MetadataEntryValid(a)
                   /\ MetadataEntryValid(a) =>
                          (v \in call'.mhits /\ v \notin call'.invoked
                           /\ v \in RecordVersions(call'.result))
                   /\ (v \in call'.invoked /\ v \in RecordVersions(call'.result)) =>
                          (a \in DOMAIN mcache' /\ mcache'[a].mtime = now)]_vars

\* C10 as amended: the same, the entry being there after a fetch unless the
\* cache directory did not take the write.
C10_FetchOnlyOnMissAndCachedIfWritable ==
    [][IsCall =>
           \A v \in call'.found :
               LET a == Acc(call'.base, v)
               IN  /\ v \in call'.invoked => ~MetadataEntryValid(a)
                   /\ MetadataEntryValid(a) =>
                          (v \in call'.mhits /\ v \notin call'.invoked
                           /\ v \in RecordVersions(call'.result))
                   /\ (v \in call'.invoked /\ v \in RecordVersions(call'.result)
                       /\ call'.writable) =>
                          (a \in DOMAIN mcache' /\ mcache'[a].mtime = now)
                   /\ (v \in call'.invoked /\ ~call'.writable) => mcache' = mcache]_vars

\* C10, its case: the discovery entry had expired, and the last call took one
\* record from the metadata cache and fetched another with the tool.
C10_Witness ==
    /\ call.stale
    /\ call.mhits # {}
    /\ call.invoked # {}
    /\ call.invoked \subseteq RecordVersions(call.result)

\* C11: every accession the last call handed to the datasets tool matches
\* GC[AF]_ + nine digits + dot + digits; a found version whose accession does
\* not match was not handed to the tool.
C11_OnlyStrictAccessionsInvoked ==
    /\ \A v \in call.invoked : StrictMatch(Acc(call.base, v))
    /\ \A v \in call.found : ~StrictMatch(Acc(call.base, v)) => v \notin call.invoked

\* C11, its case: the last call found versions of a base with eight digits in
\* the listing, and skipped them.
C11_Witness ==
    /\ call.listing = "ok"
    /\ call.found # {}
    /\ ~StrictMatch(Acc(call.base, 2))
    /\ call.invoked = {}

\* C12: a call that discovers afresh goes through every found version also
\* past one the tool does not resolve: each found version of a base that
\* matches the strict pattern was served from the metadata cache or handed to
\* the tool, and the returned list holds the record of every version that was
\* served from the cache or resolved by the tool, and of no other.
C12_VersionFailureSkipsOnlyThatVersion ==
    [][(IsCall /\ call'.listing = "ok") =>
           /\ StrictMatch(Acc(call'.base, 2)) =>
                  call'.found = call'.mhits \cup call'.invoked
           /\ call'.failed \subseteq call'.invoked
           /\ RecordVersions(call'.result) =
                  call'.mhits \cup (call'.invoked \ call'.failed)
           /\ Len(call'.result) = Cardinality(RecordVersions(call'.result))]_vars

\* C12, its case: the tool failed for one found version and the call returned
\* the record of another.
C12_Witness ==
    /\ call.failed # {}
    /\ call.result # <<>>
    /\ call.failed \cup RecordVersions(call.result) = call.found

\* C26: the list a fresh discovery returns holds each version at most once,
\* a lower version number before a higher one.
C26_VersionsAscending ==
    call.listing = "ok" =>
        \A i, j \in 1..Len(call.result) :
            i < j => call.result[i].accession[2] < call.result[j].accession[2]

\* C27: a call during which the cache directory takes no write does not
\* raise, returns a record for every version it took from the metadata cache
\* or the datasets tool resolved, as a call whose writes succeed does, and
\* leaves both caches as they were.
C27_CacheWriteBestEffort ==
    [][(IsCall /\ call'.listing = "ok" /\ ~call'.writable) =>
           /\ ~call'.raised
           /\ RecordVersions(call'.result) = call'.mhits \cup (call'.invoked \ call'.failed)
           /\ Len(call'.result) = Cardinality(call'.mhits \cup (call'.invoked \ call'.failed))
           /\ vcache' = vcache
           /\ mcache' = mcache]_vars

\* C27, its case: a call whose writes failed returned records of the tool.
C27_Witness ==
    /\ call.listing = "ok"
    /\ ~call.writable
    /\ call.invoked \ call.failed # {}
    /\ RecordVersions(call.result) = call.invoked \ call.failed

----------------------------------------------------------------------------
(* Properties of the Cache Store, of specification SpecCache *)

\* The file of key k in a cache is not JSON.
IsCorrupt(cache, k) == k \in DOMAIN cache /\ cache[k].data = Corrupt

\* What load_from_cache is to return for key k: the content of a file that
\* is younger than max_age_days and holds JSON, {} otherwise.
Stored(cache, k, max_age_days) ==
    IF /\ k \in DOMAIN cache
       /\ now - cache[k].mtime < max_age_days * DAY
       /\ cache[k].data # Corrupt
    THEN cache[k].data
    ELSE EmptyDict

\* C25: load_from_cache raises for no file of either cache and returns the
\* content of a young JSON file, {} otherwise; a call of
\* find_all_assembly_versions does not raise, and one that meets a corrupt
\* discovery file fetches the listing, and hands a found version whose
\* metadata file is corrupt to the datasets tool.
C25_CorruptCacheIsAMiss ==
    [][IsCall =>
           /\ \A b \in DiscBases :
                 /\ ~load_from_cache(vcache, b, DiscoveryMaxAgeDays, now).raised
                 /\ load_from_cache(vcache, b, DiscoveryMaxAgeDays, now).value
                        = Stored(vcache, b, DiscoveryMaxAgeDays)
           /\ \A v \in Versions :
                 /\ ~load_from_cache(mcache, Acc(BaseGood, v), MetadataMaxAgeDays, now).raised
                 /\ load_from_cache(mcache, Acc(BaseGood, v), MetadataMaxAgeDays, now).value
                        = Stored(mcache, Acc(BaseGood, v), MetadataMaxAgeDays)
           /\ ~call'.raised
           /\ IsCorrupt(vcache, call'.base) => (~call'.hit /\ call'.listing # "none")
           /\ \A v \in call'.found :
                 IsCorrupt(mcache, Acc(call'.base, v)) =>
                     (v \notin call'.mhits /\ v \in call'.invoked)]_vars

\* C25, its case: the last call met a corrupt discovery file that is younger
\* than seven days, fetched the listing and returned records.
C25_Witness ==
    /\ IsCorrupt(vcache, call.base)
    /\ DiscoveryEntryValid(call.base)
    /\ call.listing = "ok"
    /\ call.result # <<>>

----------------------------------------------------------------------------
(* Properties of the Accession Codec and the Backfill Scan, of specification SpecScan *)

\* The accession is a base alone or a base, a dot and an integer.
WellFormed(a) == Len(a) = 1 \/ (Len(a) = 2 /\ a[2] # NonNumeric)

\* The version of a well-formed accession.
VersionOf(a) == IF Len(a) = 1 THEN 1 ELSE a[2]

\* The number of places of a sequence where P holds.
Count(seq, P(_)) == Cardinality({i \in 1..Len(seq) : P(seq[i])})

\* C13: once the driver has scanned the corpus it has not aborted, no task
\* stands for a record whose text after the dot is not an integer, and every
\* well-formed record with a version above 1 has its task.
C13_MalformedAccessionNeverAborts ==
    runs > 0 =>
        /\ pc # "aborted"
        /\ \A k \in 1..Len(tasks) :
               tasks[k].current_accession # Acc(BaseGood, NonNumeric)
        /\ \A i \in 1..Len(corpus) :
               (WellFormed(corpus[i]) /\ VersionOf(corpus[i]) > 1) =>
                   \E k \in 1..Len(tasks) : tasks[k].current_accession = corpus[i]

\* C18: once the driver has scanned the corpus, a well-formed accession with
\* version v > 1 has as many tasks as the corpus has records of it, each with
\* current_version v and historical_versions_needed 1, ..., v - 1; an
\* accession with version 1 or without a version has no task.
C18_OneTaskPerVersionedRecord ==
    runs > 0 =>
        \A a \in {x \in ScanAccessions : WellFormed(x)} :
            LET IsRecord(acc) == acc = a
                IsTask(task)  == task.current_accession = a
            IN  IF VersionOf(a) > 1
                THEN /\ Count(tasks, IsTask) = Count(corpus, IsRecord)
                     /\ \A k \in 1..Len(tasks) : IsTask(tasks[k]) =>
                            /\ tasks[k].current_version = VersionOf(a)
                            /\ tasks[k].historical_versions_needed =
                                   [v \in 1..(VersionOf(a) - 1) |-> v]
                ELSE Count(tasks, IsTask) = 0

\* C19: when the scan has returned, the accessions of the task list are the
\* accessions of the corpus with a version above 1, in the order of the
\* corpus; so it is after every scan of the corpus.
C19_TaskOrderIsCorpusOrder ==
    (runs > 0 /\ pc \in {"loop", "done"}) =>
        LET Yields(acc) == Len(acc) > 1 /\ acc[2] > 1
        IN  [k \in 1..Len(tasks) |-> tasks[k].current_accession] =
                SelectSeq(corpus, Yields)

\* C19, its case: the second scan of a corpus gave two tasks of different
\* accessions.
C19_Witness ==
    /\ runs = 2
    /\ pc = "loop"
    /\ Len(tasks) = 2
    /\ tasks[1].current_accession # tasks[2].current_accession

\* C20: for an accession with a dot and an integer after its last dot,
\* parse_accession returns the text before the last dot and that integer; for
\* an accession without a dot, the whole text and 1.
C20_ParseSplitsAtLastDot ==
    LET a == codec.accession
        n == Len(a)
        r == codec.result
    IN  /\ n = 1 => (~r.raised /\ r.value = <<a[1], 1>>)
        /\ (n > 1 /\ a[n] # NonNumeric) =>
               /\ ~r.raised
               /\ <<r.value[1]>> = SubSeq(a, 1, n - 1)
               /\ r.value[2] = a[n]

====
